---- MODULE Spec2Model ----
(***************************************************************************)
(* Model of src/ephys/spikeglx.py: the SpikeGLX metadata parser, the       *)
(* channel topology (get_channel_idx, get_gain, get_uV_per_bit), the       *)
(* binary decoder (read_bin, read_analog) and the digital event extractor  *)
(* (read_digital).                                                         *)
(*                                                                         *)
(* The library keeps no state between calls.  The state of the model is    *)
(* the call being made: its name (op), its arguments (args) and what it    *)
(* returned or raised (ret).  Each action is one call of a library         *)
(* function on inputs drawn from a bounded set.                            *)
(*                                                                         *)
(* Python values are tagged records [t, v]; a dict with string keys is a   *)
(* function whose DOMAIN is the set of keys present.  A call's outcome is  *)
(* [exc, val]: exc = "none" and the returned value, or the name of the     *)
(* Python exception class and its message.  Text is a sequence of tokens   *)
(* (file names) or a tagged lexical form (metadata lines).                 *)
(***************************************************************************)
EXTENDS Integers, Sequences, FiniteSets, TLC

VARIABLES op, args, ret

vars == <<op, args, ret>>

(***************************************************************************)
(* Bounds of the model.                                                    *)
(***************************************************************************)
\* largest channel sub-count (AP, LF, SY, MN, MA, XA, DW) enumerated
MaxCount == 2
\* largest number of whole sample frames in a binary file
MaxFrames == 3
\* largest channel count (n_channel) given to read_bin
MaxChan == 2
\* largest number of lines in a metadata file given to read_meta
MaxLines == 3
\* largest number of per-channel groups after the header of an imroTbl value
MaxEntries == 3
\* largest number of tokens of a file name given to read_analog, read_digital
MaxPathLen == 3

(***************************************************************************)
(* Python values and outcomes.                                             *)
(***************************************************************************)
PyNone == [t |-> "None", v |-> 0]
PyInt(n) == [t |-> "int", v |-> n]
\* a float, kept exactly as the rational num/den
PyFloat(num, den) == [t |-> "float", v |-> <<num, den>>]
\* a str, kept as its sequence of tokens
PyStr(s) == [t |-> "str", v |-> s]
PyDict(d) == [t |-> "dict", v |-> d]
PySlice(start, stop) == [t |-> "slice", v |-> <<start, stop>>]
PyArray(s) == [t |-> "array", v |-> s]

Ok(v) == [exc |-> "none", val |-> v]
Raise(e, msg) == [exc |-> e, val |-> msg]
IsOk(r) == r.exc = "none"

\* key in meta
Has(meta, k) == k \in DOMAIN meta
\* meta[k] == s for a one-token str literal s: False when meta[k] is not a str
PyEqStr(x, s) == x.t = "str" /\ x.v = <<s>>

Min(a, b) == IF a <= b THEN a ELSE b
Max(a, b) == IF a >= b THEN a ELSE b

\* s.endswith(suffix) on token sequences
EndsWith(s, suffix) ==
    /\ Len(s) >= Len(suffix)
    /\ SubSeq(s, Len(s) - Len(suffix) + 1, Len(s)) = suffix

\* s.replace(old, new) for a one-token old and new: every occurrence
Replace(s, old, new) == [i \in 1..Len(s) |-> IF s[i] = old THEN new ELSE s[i]]

EmptyDict == [k \in {} |-> PyNone]

Abs(a) == IF a < 0 THEN -a ELSE a

RECURSIVE Gcd(_, _)
Gcd(a, b) == IF b = 0 THEN a ELSE Gcd(b, a % b)

\* the rational num/den in lowest terms with a positive denominator (a zero
\* denominator, the inf or nan of a float division by zero, is kept)
Rat(num, den) ==
    IF den = 0 THEN <<num, 0>>
    ELSE LET g == Gcd(Abs(num), Abs(den))
             sign == IF den < 0 THEN -1 ELSE 1
         IN  <<sign * (num \div g), sign * (den \div g)>>

\* the sizeof-byte little-endian encoding of the unsigned value u
ToBytes(u, size) == [k \in 1..size |-> (u \div (256 ^ (k - 1))) % 256]

RECURSIVE Flatten(_)
\* the concatenation of a sequence of sequences
Flatten(ss) == IF Len(ss) = 0 THEN <<>> ELSE Head(ss) \o Flatten(Tail(ss))

\* range(start, stop) as a sequence
Range(start, stop) == [i \in 1..Max(stop - start, 0) |-> start + i - 1]

(***************************************************************************)
(* ChannelTopology: get_channel_idx                                        *)
(***************************************************************************)
\* get_channel_idx with the digital range of imec starting at AP, of nidq
\* at MN+MA (the LF, resp. XA, channels forgotten)
get_channel_idx_short(meta, analog) ==
    IF ~Has(meta, "typeThis") THEN Raise("KeyError", "typeThis")
    ELSE IF PyEqStr(meta["typeThis"], "imec") THEN
        IF ~Has(meta, "snsApLfSy") THEN Raise("KeyError", "snsApLfSy")
        ELSE LET c == meta["snsApLfSy"].v
             IN  IF analog THEN Ok(PySlice(0, c.AP + c.LF))
                 ELSE Ok(PySlice(c.AP, c.AP + c.LF + c.SY))
    ELSE IF PyEqStr(meta["typeThis"], "nidq") THEN
        IF ~Has(meta, "snsMnMaXaDw") THEN Raise("KeyError", "snsMnMaXaDw")
        ELSE LET c == meta["snsMnMaXaDw"].v
             IN  IF analog THEN Ok(PySlice(0, c.MN + c.MA + c.XA))
                 ELSE Ok(PySlice(c.MN + c.MA, c.MN + c.MA + c.XA + c.DW))
    ELSE Raise("ValueError", "Unrecognized recording type")

get_channel_idx(meta, analog) ==
    IF ~Has(meta, "typeThis") THEN Raise("KeyError", "typeThis")
    ELSE IF PyEqStr(meta["typeThis"], "imec") THEN
        IF ~Has(meta, "snsApLfSy") THEN Raise("KeyError", "snsApLfSy")
        ELSE LET n_ap == meta["snsApLfSy"].v.AP
                 n_lf == meta["snsApLfSy"].v.LF
                 n_sy == meta["snsApLfSy"].v.SY
             IN  IF analog THEN Ok(PySlice(0, n_ap + n_lf))
                 ELSE Ok(PySlice(n_ap + n_lf, n_ap + n_lf + n_sy))
    ELSE IF PyEqStr(meta["typeThis"], "nidq") THEN
        IF ~Has(meta, "snsMnMaXaDw") THEN Raise("KeyError", "snsMnMaXaDw")
        ELSE LET n_mn == meta["snsMnMaXaDw"].v.MN
                 n_ma == meta["snsMnMaXaDw"].v.MA
                 n_xa == meta["snsMnMaXaDw"].v.XA
                 n_dw == meta["snsMnMaXaDw"].v.DW
             IN  IF analog THEN Ok(PySlice(0, n_mn + n_ma + n_xa))
                 ELSE Ok(PySlice(n_mn + n_ma + n_xa, n_mn + n_ma + n_xa + n_dw))
    ELSE Raise("ValueError", "Unrecognized recording type")

(***************************************************************************)
(* ChannelTopology: get_gain, get_uV_per_bit                               *)
(*                                                                         *)
(* A number of an array is the rational <<num, den>>.                      *)
(***************************************************************************)
\* the rational a Python int or float stands for
NumOf(x) == IF x.t = "int" THEN <<x.v, 1>> ELSE Rat(x.v[1], x.v[2])

IsNumber(x) == x.t \in {"int", "float"}

\* [channel[field] for channel in channels]: KeyError at the first channel
\* record without the field
FieldOfAll(channels, field) ==
    IF \E i \in 1..Len(channels) : field \notin DOMAIN channels[i]
    THEN Raise("KeyError", field)
    ELSE Ok(PyArray([i \in 1..Len(channels) |-> <<channels[i][field], 1>>]))

get_gain(meta) ==
    IF ~Has(meta, "typeThis") THEN Raise("KeyError", "typeThis")
    ELSE IF PyEqStr(meta["typeThis"], "imec") THEN
        IF ~Has(meta, "imroTbl") \/ "channels" \notin DOMAIN meta["imroTbl"].v
        THEN Raise("ValueError", "Missing 'imroTbl' or 'channels' in metadata for imec recording")
        ELSE IF ~Has(meta, "fileName") THEN Raise("KeyError", "fileName")
        ELSE IF EndsWith(meta["fileName"].v, <<".ap", ".bin">>)
        THEN FieldOfAll(meta["imroTbl"].v.channels, "apgain")
        ELSE IF EndsWith(meta["fileName"].v, <<".lf", ".bin">>)
        THEN FieldOfAll(meta["imroTbl"].v.channels, "lfgain")
        \* the message is formatted with meta['filename'], a key read_meta
        \* stores only when the file has a line of that name
        ELSE IF ~Has(meta, "filename") THEN Raise("KeyError", "filename")
        ELSE Raise("ValueError", "Unrecognized file type for imec recording")
    ELSE IF PyEqStr(meta["typeThis"], "nidq") THEN
        IF ~Has(meta, "snsMnMaXaDw") \/ ~Has(meta, "niMNGain") \/ ~Has(meta, "niMAGain")
        THEN Raise("ValueError", "Missing required metadata for nidq recording")
        ELSE LET n_mn == meta["snsMnMaXaDw"].v.MN
                 n_ma == meta["snsMnMaXaDw"].v.MA
                 n_xa == meta["snsMnMaXaDw"].v.XA
                 n_dw == meta["snsMnMaXaDw"].v.DW
             IN  Ok(PyArray([i \in 1..(n_mn + n_ma + n_xa + n_dw) |->
                     IF i <= n_mn THEN NumOf(meta["niMNGain"])
                     ELSE IF i <= n_mn + n_ma THEN NumOf(meta["niMAGain"])
                     ELSE <<1, 1>>]))
    ELSE Raise("ValueError", "Unrecognized recording type")

\* meta.get(k)
Get(meta, k) == IF Has(meta, k) THEN meta[k] ELSE PyNone

\* bool(x)
Truthy(x) ==
    CASE x.t = "None" -> FALSE
      [] x.t = "int" -> x.v # 0
      [] x.t = "float" -> x.v[1] # 0
      [] x.t = "str" -> Len(x.v) > 0
      [] OTHER -> TRUE

\* x or y that takes x whenever the key of x is present
PresentOr(x, y) == IF x.t # "None" THEN x ELSE y

\* x or y
PyOr(x, y) == IF Truthy(x) THEN x ELSE y

\* 1000000 * AiRangeMax / MaxInt / gains, elementwise over gains
ScaleVector(AiRangeMax, MaxInt, gains) ==
    IF ~IsNumber(AiRangeMax) \/ ~IsNumber(MaxInt)
    THEN Raise("TypeError", "unsupported operand type(s)")
    ELSE IF NumOf(MaxInt)[1] = 0
    THEN Raise("ZeroDivisionError", "division by zero")
    ELSE LET r == NumOf(AiRangeMax)
             m == NumOf(MaxInt)
         IN  Ok(PyArray([i \in 1..Len(gains.v) |->
                 Rat(1000000 * r[1] * m[2] * gains.v[i][2], r[2] * m[1] * gains.v[i][1])]))

get_uV_per_bit(meta) ==
    LET AiRangeMax == PyOr(Get(meta, "imAiRangeMax"), Get(meta, "niAiRangeMax"))
        MaxInt == PyOr(PyOr(Get(meta, "imMaxInt"), Get(meta, "niMaxInt")), PyInt(512))
        gains == get_gain(meta)
    IN  IF ~IsOk(gains) THEN gains
        ELSE ScaleVector(AiRangeMax, MaxInt, gains.val)

(***************************************************************************)
(* BinaryDecoder: read_bin                                                 *)
(*                                                                         *)
(* The file system is a function from paths to contents; a binary file is  *)
(* its sequence of bytes.  A matrix is [rows, ncols], rows a sequence of   *)
(* rows, each a sequence of ncols integers.                                *)
(***************************************************************************)
\* np.dtype(dtype).itemsize
itemsize(dtype) ==
    CASE dtype = "int16" -> 2
      [] dtype = "uint16" -> 2
      [] dtype = "uint8" -> 1
      [] dtype = "int8" -> 1

IsSigned(dtype) == dtype \in {"int16", "int8"}

Pow2(n) == IF n <= 0 THEN 1 ELSE 2 ^ n

\* the element of type dtype stored at byte offset off (0-based) of bytes:
\* little-endian, two's complement when signed
ElementAt(bytes, dtype, off) ==
    LET sz == itemsize(dtype)
        u == IF sz = 1 THEN bytes[off + 1] ELSE bytes[off + 1] + 256 * bytes[off + 2]
    IN  IF IsSigned(dtype) /\ u >= Pow2(8 * sz - 1) THEN u - Pow2(8 * sz) ELSE u

\* np.memmap(filename, dtype=dtype, mode='r', shape=(n_sample, n_channel),
\* offset=offset): the mapped view, or the ValueError of mmap (an empty file
\* cannot be mapped; the mapping may not run past the end of the file)
memmap(bytes, dtype, n_sample, n_channel, offset) ==
    IF Len(bytes) = 0 THEN Raise("ValueError", "cannot mmap an empty file")
    ELSE IF n_sample < 0 THEN Raise("ValueError", "negative dimensions are not allowed")
    ELSE IF offset + n_sample * n_channel * itemsize(dtype) > Len(bytes)
    THEN Raise("ValueError", "mmap length is greater than file size")
    ELSE Ok([rows |-> [i \in 1..n_sample |-> [j \in 1..n_channel |->
                 ElementAt(bytes, dtype,
                           offset + ((i - 1) * n_channel + (j - 1)) * itemsize(dtype))]],
             ncols |-> n_channel])

\* a[i] for a 0-based index into a sequence of length n: negative indices
\* count from the end
WrapIndex(i, n) == IF i < 0 THEN i + n ELSE i

IndexInBounds(i, n) == -n <= i /\ i < n

\* s[start:stop] of a sequence of length n, as the 0-based indices selected
SliceIndices(slc, n) ==
    LET lo == IF slc.v[1] < 0 THEN Max(slc.v[1] + n, 0) ELSE Min(slc.v[1], n)
        hi == IF slc.v[2] < 0 THEN Max(slc.v[2] + n, 0) ELSE Min(slc.v[2], n)
    IN  Range(lo, hi)

\* data[:, channel_idx] for a slice or an index array
SelectColumns(data, channel_idx) ==
    IF channel_idx.t = "slice"
    THEN LET cols == SliceIndices(channel_idx, data.ncols)
         IN  Ok([rows |-> [i \in 1..Len(data.rows) |->
                              [j \in 1..Len(cols) |-> data.rows[i][cols[j] + 1]]],
                 ncols |-> Len(cols)])
    ELSE LET cols == channel_idx.v
         IN  IF \E j \in 1..Len(cols) : ~IndexInBounds(cols[j], data.ncols)
             THEN Raise("IndexError", "index is out of bounds for axis 1")
             ELSE Ok([rows |-> [i \in 1..Len(data.rows) |->
                                  [j \in 1..Len(cols) |->
                                      data.rows[i][WrapIndex(cols[j], data.ncols) + 1]]],
                      ncols |-> Len(cols)])

\* read_bin whose byte offset leaves out the element width
read_bin_offset_in_elements(fs, filename, n_channel, dtype, channel_idx, sample_range) ==
    IF filename \notin DOMAIN fs
    THEN Raise("FileNotFoundError", <<"The file does not exist", filename>>)
    ELSE IF n_channel * itemsize(dtype) = 0
    THEN Raise("ZeroDivisionError", "integer division or modulo by zero")
    ELSE
        LET cidx == IF channel_idx.t = "None" THEN PySlice(0, n_channel) ELSE channel_idx
            n_sample_file == Len(fs[filename]) \div (n_channel * itemsize(dtype))
            sr == IF sample_range.t = "None" THEN <<0, n_sample_file>> ELSE sample_range.v
            offset == sr[1] * n_channel
            n_sample == sr[2] - sr[1]
            data == memmap(fs[filename], dtype, n_sample, n_channel, offset)
        IN  IF ~IsOk(data) THEN data ELSE SelectColumns(data.val, cidx)

read_bin(fs, filename, n_channel, dtype, channel_idx, sample_range) ==
    IF filename \notin DOMAIN fs
    THEN Raise("FileNotFoundError", <<"The file does not exist", filename>>)
    ELSE IF n_channel * itemsize(dtype) = 0
    THEN Raise("ZeroDivisionError", "integer division or modulo by zero")
    ELSE
        LET cidx == IF channel_idx.t = "None" THEN PySlice(0, n_channel) ELSE channel_idx
            n_sample_file == Len(fs[filename]) \div (n_channel * itemsize(dtype))
            sr == IF sample_range.t = "None" THEN <<0, n_sample_file>> ELSE sample_range.v
            offset == sr[1] * n_channel * itemsize(dtype)
            n_sample == sr[2] - sr[1]
            data == memmap(fs[filename], dtype, n_sample, n_channel, offset)
        IN  IF ~IsOk(data) THEN data ELSE SelectColumns(data.val, cidx)

(***************************************************************************)
(* MetaGrammar: read_meta and the compound sub-grammars                    *)
(*                                                                         *)
(* A line of the metadata file is [eq, tilde, name, value]: eq says        *)
(* whether the line holds a '=', tilde whether the key starts with '~',    *)
(* name is the key without that marker, value the text after the first     *)
(* '=' in lexical form [lex, v]:                                           *)
(*   "int"   an integer literal, v its value                               *)
(*   "float" a float literal that is no integer literal, v = <<num, den>>  *)
(*   "text"  text without ',' or '(' that is no number, v its tokens       *)
(*   "csv"   two or more integer literals separated by ',', v the integers *)
(*   "groups" parenthesised groups, v a sequence of [sep, f]: the fields f *)
(*           (integers) of the group and the separator between them        *)
(*   "chanmap" a snsChanMap value, "geommap" a snsGeomMap value            *)
(***************************************************************************)
\* the three probe-type sets of parse_imrotbl
NP1Types == {0, 1020, 1030, 1100, 1120, 1121, 1122, 1123, 1200, 1300}
NP2SingleShankTypes == {21, 2003, 2004}
NP2FourShankTypes == {24, 2013, 2014}

\* tuple(map(int, text.split(sep))) of the text of a group: sep = "," for
\* split(','), " " for split().  A group written with the other separator is
\* one field that is no integer literal; ''.split(',') is [''] and ''.split()
\* is [].
IntFields(group, sep) ==
    IF Len(group.f) = 0
    THEN IF sep = "," THEN Raise("ValueError", "invalid literal for int()") ELSE Ok(<<>>)
    ELSE IF Len(group.f) > 1 /\ group.sep # sep
    THEN Raise("ValueError", "invalid literal for int()")
    ELSE Ok(group.f)

\* re.findall(r'\((.*?)\)', value)
FindGroups(value) == IF value.lex = "groups" THEN value.v ELSE <<>>

\* the channel record parse_imrotbl appends for channel_data, as a sequence of
\* zero or one records
ChannelRecord(probe_type, channel_data) ==
    IF probe_type \in NP1Types THEN
        IF Len(channel_data) = 6
        THEN <<[channel |-> channel_data[1], bank |-> channel_data[2],
                refid |-> channel_data[3], apgain |-> channel_data[4],
                lfgain |-> channel_data[5], apfilt |-> channel_data[6]]>>
        ELSE <<>>
    ELSE IF probe_type \in NP2SingleShankTypes THEN
        IF Len(channel_data) = 4
        THEN <<[channel |-> channel_data[1], bank_mask |-> channel_data[2],
                refid |-> channel_data[3], electrode |-> channel_data[4],
                apgain |-> 80]>>
        ELSE <<>>
    ELSE IF probe_type \in NP2FourShankTypes THEN
        IF Len(channel_data) = 5
        THEN <<[channel |-> channel_data[1], shank |-> channel_data[2],
                bank |-> channel_data[3], refid |-> channel_data[4],
                electrode |-> channel_data[5], apgain |-> 80]>>
        ELSE <<>>
    ELSE <<>>

\* the loop of parse_imrotbl over entries[i..]: the channel list, or the
\* error of the first entry that is not whitespace-separated integers
RECURSIVE imro_channels(_, _, _, _)
imro_channels(probe_type, entries, i, channels) ==
    IF i > Len(entries) THEN Ok(channels)
    ELSE LET channel_data == IntFields(entries[i], " ")
         IN  IF ~IsOk(channel_data) THEN channel_data
             ELSE imro_channels(probe_type, entries, i + 1,
                                channels \o ChannelRecord(probe_type, channel_data.val))

\* parse_imrotbl that rejects a probe type of none of the three sets
parse_imrotbl_strict(value) ==
    LET entries == FindGroups(value)
    IN  IF Len(entries) = 0 THEN Raise("IndexError", "list index out of range")
        ELSE LET header == IntFields(entries[1], ",")
             IN  IF ~IsOk(header) THEN header
                 ELSE IF Len(header.val) # 2
                 THEN Raise("ValueError", "wrong number of values to unpack")
                 ELSE IF header.val[1] \notin
                            NP1Types \cup NP2SingleShankTypes \cup NP2FourShankTypes
                 THEN Raise("ValueError", "unknown probe type")
                 ELSE LET channels == imro_channels(header.val[1], Tail(entries), 1, <<>>)
                      IN  IF ~IsOk(channels) THEN channels
                          ELSE Ok(PyDict([probe_type |-> header.val[1],
                                          num_channels |-> header.val[2],
                                          channels |-> channels.val]))

parse_imrotbl(value) ==
    LET entries == FindGroups(value)
    IN  IF Len(entries) = 0 THEN Raise("IndexError", "list index out of range")
        ELSE LET header == IntFields(entries[1], ",")
             IN  IF ~IsOk(header) THEN header
                 ELSE IF Len(header.val) # 2
                 THEN Raise("ValueError", "wrong number of values to unpack")
                 ELSE LET probe_type == header.val[1]
                          num_channels == header.val[2]
                          channels == imro_channels(probe_type, Tail(entries), 1, <<>>)
                      IN  IF ~IsOk(channels) THEN channels
                          ELSE Ok(PyDict([probe_type |-> probe_type,
                                          num_channels |-> num_channels,
                                          channels |-> channels.val]))

\* parse_snschanmap: value.v = [header, entries], header the integers of the
\* leading group when it is all digits separated by ',', entries the
\* (name;channel:order) groups
parse_snschanmap(value) ==
    IF value.lex = "chanmap" /\ Len(value.v.header) = 5
    THEN Ok(PyDict([header |-> [MN_channels |-> value.v.header[1],
                                MA_channels |-> value.v.header[2],
                                mux_channels |-> value.v.header[3],
                                XA_channels |-> value.v.header[4],
                                XD_words |-> value.v.header[5]],
                    channel_map |-> value.v.entries]))
    ELSE IF value.lex = "chanmap" /\ Len(value.v.header) = 3
    THEN Ok(PyDict([header |-> [AP_channels |-> value.v.header[1],
                                LF_channels |-> value.v.header[2],
                                SY_channels |-> value.v.header[3]],
                    channel_map |-> value.v.entries]))
    ELSE Raise("ValueError", "Invalid header format in snsChanMap")

\* parse_snsgeommap: value.v = [part_number, header, entries], header the
\* integers after the part number in the first group, entries the integers of
\* the following groups, separated by ':'
parse_snsgeommap(value) ==
    IF value.lex # "geommap" THEN Raise("ValueError", "Invalid snsGeomMap format")
    ELSE IF \E i \in 1..Len(value.v.entries) : Len(value.v.entries[i]) # 4
    THEN Raise("ValueError", "wrong number of values to unpack")
    ELSE IF Len(value.v.header) < 3 THEN Raise("IndexError", "list index out of range")
    ELSE Ok(PyDict([header |-> [part_number |-> value.v.part_number,
                                shank_count |-> value.v.header[1],
                                shank_spacing |-> value.v.header[2],
                                per_shank_width |-> value.v.header[3]],
                    electrodes |-> [i \in 1..Len(value.v.entries) |->
                        [shank |-> value.v.entries[i][1], x |-> value.v.entries[i][2],
                         z |-> value.v.entries[i][3],
                         used |-> value.v.entries[i][4] # 0]]]))

\* list(map(int, value.split(',')))
IntList(value) ==
    CASE value.lex = "int" -> Ok(<<value.v>>)
      [] value.lex = "csv" -> Ok(value.v)
      [] OTHER -> Raise("ValueError", "invalid literal for int()")

\* the value read_meta stores for a line with the key `key`
meta_value(key, value) ==
    IF key = "imroTbl" THEN parse_imrotbl(value)
    ELSE IF key = "snsChanMap" THEN parse_snschanmap(value)
    ELSE IF key = "snsGeomMap" THEN parse_snsgeommap(value)
    ELSE IF key \in {"acqMnMaXaDw", "snsMnMaXaDw"} THEN
        LET values == IntList(value)
        IN  IF ~IsOk(values) THEN values
            ELSE IF Len(values.val) < 4 THEN Raise("IndexError", "list index out of range")
            ELSE Ok(PyDict([MN |-> values.val[1], MA |-> values.val[2],
                            XA |-> values.val[3], DW |-> values.val[4]]))
    ELSE IF key = "snsApLfSy" THEN
        LET values == IntList(value)
        IN  IF ~IsOk(values) THEN values
            ELSE IF Len(values.val) < 3 THEN Raise("IndexError", "list index out of range")
            ELSE Ok(PyDict([AP |-> values.val[1], LF |-> values.val[2],
                            SY |-> values.val[3]]))
    ELSE IF value.lex = "int" THEN Ok(PyInt(value.v))
    ELSE IF value.lex = "float" THEN Ok(PyFloat(value.v[1], value.v[2]))
    ELSE Ok(PyStr(value.v))

\* the loop of read_meta that skips a line without '='
RECURSIVE meta_lines_skipping(_, _, _)
meta_lines_skipping(lines, i, meta) ==
    IF i > Len(lines) THEN Ok(meta)
    ELSE IF ~lines[i].eq THEN meta_lines_skipping(lines, i + 1, meta)
    ELSE LET parsed == meta_value(lines[i].name, lines[i].value)
         IN  IF ~IsOk(parsed) THEN parsed
             ELSE meta_lines_skipping(lines, i + 1, (lines[i].name :> parsed.val) @@ meta)

\* the loop of read_meta over lines[i..] with the dict built so far: the
\* finished dict, or the first exception, with which the dict is lost
RECURSIVE meta_lines(_, _, _)
meta_lines(lines, i, meta) ==
    IF i > Len(lines) THEN Ok(meta)
    ELSE IF ~lines[i].eq
    THEN Raise("ValueError", "not enough values to unpack (expected 2, got 1)")
    ELSE LET key == lines[i].name
             parsed == meta_value(key, lines[i].value)
         IN  IF ~IsOk(parsed) THEN parsed
             ELSE meta_lines(lines, i + 1, (key :> parsed.val) @@ meta)

read_meta(fs, filename) ==
    LET filename_meta == Replace(filename, ".bin", ".meta")
    IN  IF filename_meta \notin DOMAIN fs
        THEN Raise("FileNotFoundError", <<"No such file or directory", filename_meta>>)
        ELSE meta_lines(fs[filename_meta], 1, EmptyDict)

(***************************************************************************)
(* read_analog, read_digital                                               *)
(*                                                                         *)
(* Their outcome carries `looked`, the paths given to os.path.exists by    *)
(* the function itself, in order.                                          *)
(***************************************************************************)
Looked(r, paths) == [exc |-> r.exc, val |-> r.val, looked |-> paths]

\* the suffix test and substitution at the head of read_analog and read_digital
resolve_pair(filename) ==
    IF EndsWith(filename, <<".meta">>)
    THEN Ok([bin_fn |-> Replace(filename, ".meta", ".bin"), meta_fn |-> filename])
    ELSE IF EndsWith(filename, <<".bin">>)
    THEN Ok([bin_fn |-> filename, meta_fn |-> Replace(filename, ".bin", ".meta")])
    ELSE Raise("ValueError", "Filename must end with either '.meta' or '.bin'")

\* uV_per_bit[channel_idx]
IndexVector(vec, channel_idx) ==
    IF channel_idx.t = "slice"
    THEN LET idx == SliceIndices(channel_idx, Len(vec))
         IN  Ok([j \in 1..Len(idx) |-> vec[idx[j] + 1]])
    ELSE IF \E j \in 1..Len(channel_idx.v) : ~IndexInBounds(channel_idx.v[j], Len(vec))
    THEN Raise("IndexError", "index is out of bounds for axis 0")
    ELSE Ok([j \in 1..Len(channel_idx.v) |->
                vec[WrapIndex(channel_idx.v[j], Len(vec)) + 1]])

\* data * scale[np.newaxis, :] under numpy broadcasting
Broadcast(data, scale) ==
    IF data.ncols = Len(scale)
    THEN Ok([rows |-> [i \in 1..Len(data.rows) |-> [j \in 1..data.ncols |->
                 Rat(data.rows[i][j] * scale[j][1], scale[j][2])]],
             ncols |-> data.ncols])
    ELSE IF Len(scale) = 1
    THEN Ok([rows |-> [i \in 1..Len(data.rows) |-> [j \in 1..data.ncols |->
                 Rat(data.rows[i][j] * scale[1][1], scale[1][2])]],
             ncols |-> data.ncols])
    ELSE IF data.ncols = 1
    THEN Ok([rows |-> [i \in 1..Len(data.rows) |-> [j \in 1..Len(scale) |->
                 Rat(data.rows[i][1] * scale[j][1], scale[j][2])]],
             ncols |-> Len(scale)])
    ELSE Raise("ValueError", "operands could not be broadcast together")

\* read_analog from line 58 on, the two files found
analog_body(fs, bin_fn, meta_fn, dtype, channel_idx, sample_range) ==
    LET meta == read_meta(fs, meta_fn)
    IN  IF ~IsOk(meta) THEN meta
        ELSE IF ~Has(meta.val, "nSavedChans") THEN Raise("KeyError", "nSavedChans")
        ELSE IF meta.val["nSavedChans"].t # "int"
        THEN Raise("TypeError", "n_channel is not an integer")
        ELSE
          LET n_channel == meta.val["nSavedChans"].v
              cidx == IF channel_idx.t = "None" THEN get_channel_idx(meta.val, TRUE)
                      ELSE Ok(channel_idx)
          IN  IF ~IsOk(cidx) THEN cidx
              ELSE
                LET uV_per_bit == get_uV_per_bit(meta.val)
                IN  IF ~IsOk(uV_per_bit) THEN uV_per_bit
                    ELSE
                      LET data == read_bin(fs, bin_fn, n_channel, dtype, cidx.val,
                                           sample_range)
                      IN  IF ~IsOk(data) THEN data
                          ELSE LET scale == IndexVector(uV_per_bit.val.v, cidx.val)
                               IN  IF ~IsOk(scale) THEN scale
                                   ELSE Broadcast(data.val, scale.val)

read_analog(fs, filename, dtype, channel_idx, sample_range) ==
    LET pair == resolve_pair(filename)
    IN  IF ~IsOk(pair) THEN Looked(pair, <<>>)
        ELSE IF pair.val.bin_fn \notin DOMAIN fs
        THEN Looked(Raise("FileNotFoundError",
                          <<"The binary file does not exist", pair.val.bin_fn>>),
                    <<pair.val.bin_fn>>)
        ELSE IF pair.val.meta_fn \notin DOMAIN fs
        THEN Looked(Raise("FileNotFoundError",
                          <<"The meta file does not exist", pair.val.meta_fn>>),
                    <<pair.val.bin_fn, pair.val.meta_fn>>)
        ELSE Looked(analog_body(fs, pair.val.bin_fn, pair.val.meta_fn, dtype,
                                channel_idx, sample_range),
                    <<pair.val.bin_fn, pair.val.meta_fn>>)

\* data.view('uint8') of one row: the bytes of its elements, little-endian
RowBytes(row, dtype) ==
    Flatten([j \in 1..Len(row) |->
        ToBytes(row[j] % Pow2(8 * itemsize(dtype)), itemsize(dtype))])

\* np.unpackbits(..., bitorder='little') of a sequence of bytes
UnpackBits(bytes) ==
    [b \in 1..(8 * Len(bytes)) |->
        (bytes[((b - 1) \div 8) + 1] \div Pow2((b - 1) % 8)) % 2]

\* the event table that stamps each change with the row before it
EventsOfEarlierRow(data_bits, width, sample_rate) ==
    LET n_diff == IF Len(data_bits) = 0 THEN 0 ELSE Len(data_bits) - 1
        cells == [p \in 1..(n_diff * width) |->
                     [row |-> (p - 1) \div width, col |-> (p - 1) % width]]
        Changed(cell) ==
            data_bits[cell.row + 2][cell.col + 1] # data_bits[cell.row + 1][cell.col + 1]
        changes == SelectSeq(cells, Changed)
    IN  [e \in 1..Len(changes) |->
            [time |-> Rat(changes[e].row * sample_rate[2], sample_rate[1]),
             sample |-> changes[e].row,
             chan |-> changes[e].col,
             type |-> data_bits[changes[e].row + 1][changes[e].col + 1]]]

\* the event table that scans the changes line by line (column-major)
EventsOfColumnMajor(data_bits, width, sample_rate) ==
    LET n_diff == IF Len(data_bits) = 0 THEN 0 ELSE Len(data_bits) - 1
        cells == [p \in 1..(n_diff * width) |->
                     [row |-> (p - 1) % n_diff, col |-> (p - 1) \div n_diff]]
        Changed(cell) ==
            data_bits[cell.row + 2][cell.col + 1] # data_bits[cell.row + 1][cell.col + 1]
        changes == SelectSeq(cells, Changed)
    IN  [e \in 1..Len(changes) |->
            [time |-> Rat((changes[e].row + 1) * sample_rate[2], sample_rate[1]),
             sample |-> changes[e].row + 1,
             chan |-> changes[e].col,
             type |-> data_bits[changes[e].row + 2][changes[e].col + 1]]]

\* the event table for the bit matrix data_bits (rows of width bits): the
\* nonzero entries of np.diff(data_bits, axis=0) in the row-major order of
\* np.where, each with the bit of the later row
EventsOf(data_bits, width, sample_rate) ==
    LET n_diff == IF Len(data_bits) = 0 THEN 0 ELSE Len(data_bits) - 1
        diff(i, c) == (data_bits[i + 2][c + 1] - data_bits[i + 1][c + 1]) % 256
        cells == [p \in 1..(n_diff * width) |->
                     [row |-> (p - 1) \div width, col |-> (p - 1) % width]]
        Changed(cell) == diff(cell.row, cell.col) # 0
        changes == SelectSeq(cells, Changed)
    IN  [e \in 1..Len(changes) |->
            [time |-> Rat((changes[e].row + 1) * sample_rate[2], sample_rate[1]),
             sample |-> changes[e].row + 1,
             chan |-> changes[e].col,
             type |-> data_bits[changes[e].row + 2][changes[e].col + 1]]]

\* lines 114-127 of read_digital on the matrix read
digital_events(data, dtype, sample_rate) ==
    LET n_digital == data.ncols
        width == n_digital * itemsize(dtype) * 8
    IN  IF width = 0
        THEN Raise("ValueError", "cannot reshape array of size 0 into shape (0)")
        ELSE LET data_bits == [i \in 1..Len(data.rows) |->
                                  UnpackBits(RowBytes(data.rows[i], dtype))]
             IN  IF ~IsNumber(sample_rate)
                 THEN Raise("TypeError", "unsupported operand type(s) for /")
                 ELSE Ok(EventsOf(data_bits, width, NumOf(sample_rate)))

\* read_digital from line 107 on, the two files found
digital_body(fs, bin_fn, meta_fn, dtype) ==
    LET meta == read_meta(fs, meta_fn)
    IN  IF ~IsOk(meta) THEN meta
        ELSE IF ~Has(meta.val, "nSavedChans") THEN Raise("KeyError", "nSavedChans")
        ELSE IF meta.val["nSavedChans"].t # "int"
        THEN Raise("TypeError", "n_channel is not an integer")
        ELSE
          LET n_channel == meta.val["nSavedChans"].v
              sample_rate == PyOr(Get(meta.val, "imSampRate"), Get(meta.val, "niSampRate"))
              channel_idx == get_channel_idx(meta.val, FALSE)
          IN  IF ~IsOk(channel_idx) THEN channel_idx
              ELSE LET data == read_bin(fs, bin_fn, n_channel, dtype, channel_idx.val, PyNone)
                   IN  IF ~IsOk(data) THEN data
                       ELSE digital_events(data.val, dtype, sample_rate)

read_digital(fs, filename, dtype) ==
    LET pair == resolve_pair(filename)
    IN  IF ~IsOk(pair) THEN Looked(pair, <<>>)
        ELSE IF pair.val.bin_fn \notin DOMAIN fs
        THEN Looked(Raise("FileNotFoundError",
                          <<"The binary file does not exist", pair.val.bin_fn>>),
                    <<pair.val.bin_fn>>)
        ELSE IF pair.val.meta_fn \notin DOMAIN fs
        THEN Looked(Raise("FileNotFoundError",
                          <<"The meta file does not exist", pair.val.meta_fn>>),
                    <<pair.val.bin_fn, pair.val.meta_fn>>)
        ELSE Looked(digital_body(fs, pair.val.bin_fn, pair.val.meta_fn, dtype),
                    <<pair.val.bin_fn, pair.val.meta_fn>>)

(***************************************************************************)
(* Inputs: metadata mappings as read_meta builds them.                     *)
(***************************************************************************)
Counts == 0..MaxCount

ApLfSy(ap, lf, sy) == PyDict([AP |-> ap, LF |-> lf, SY |-> sy])
MnMaXaDw(mn, ma, xa, dw) == PyDict([MN |-> mn, MA |-> ma, XA |-> xa, DW |-> dw])

\* the metadata get_channel_idx is called on: both recording types with every
\* choice of sub-counts, and an unsupported recording type
IdxMetas ==
    {[typeThis |-> PyStr(<<"imec">>), snsApLfSy |-> ApLfSy(ap, lf, sy)] :
        ap \in Counts, lf \in Counts, sy \in Counts}
    \cup {[typeThis |-> PyStr(<<"nidq">>), snsMnMaXaDw |-> MnMaXaDw(mn, ma, xa, dw)] :
        mn \in Counts, ma \in Counts, xa \in Counts, dw \in Counts}
    \cup {[typeThis |-> PyStr(<<"obx">>)], [typeThis |-> PyStr(<<"imec">>)],
          [typeThis |-> PyStr(<<"nidq">>)], [nSavedChans |-> PyInt(1)]}

(***************************************************************************)
(* Inputs: binary files and read_bin arguments.                            *)
(***************************************************************************)
\* a file of nbytes bytes, every byte with its own value pattern
\* (the first 16-bit element is 100)
FileBytes(nbytes) ==
    [i \in 1..nbytes |-> IF i = 1 THEN 100 ELSE IF i = 2 THEN 0 ELSE (i * 37 + 91) % 256]


BinPath == <<"run", ".bin">>
MetaPath == <<"run", ".meta">>

DTypes == {"int16", "uint16", "uint8"}

\* channel selections: the default, slices, index arrays (in order, reordered,
\* counted from the end) and one past the last channel
Selections(n_channel) ==
    <<PyNone, PySlice(0, 1), PySlice(n_channel - 1, n_channel),
      PyArray(<<0>>), PyArray(<<n_channel - 1, 0>>), PyArray(<<-1>>),
      PyArray(<<n_channel>>)>>

\* the selection picks channels the file has
ValidSelection(channel_idx, n_channel) ==
    channel_idx.t = "array" =>
        \A j \in 1..Len(channel_idx.v) : IndexInBounds(channel_idx.v[j], n_channel)

\* read_bin over (a, k), over (k, b) and over (a, b) of one file: frames
\* whole frames and extra trailing bytes
CallReadBin ==
    \E frames \in 0..MaxFrames, extra \in 0..1, n_channel \in 1..MaxChan, dtype \in DTypes :
      \E sel \in 1..Len(Selections(n_channel)) :
        \E a \in 0..(frames + 1), k \in 0..(frames + 1), b \in 0..(frames + 1) :
            LET fs == (BinPath :> FileBytes(frames * n_channel * itemsize(dtype) + extra))
                channel_idx == Selections(n_channel)[sel]
                rb(lo, hi) == read_bin(fs, BinPath, n_channel, dtype, channel_idx,
                                       PyArray(<<lo, hi>>))
            IN  /\ op = "none"
                /\ a <= k /\ k <= b
                /\ op' = "read_bin"
                /\ args' = [frames |-> frames, extra |-> extra, n_channel |-> n_channel,
                            dtype |-> dtype, channel_idx |-> channel_idx,
                            a |-> a, k |-> k, b |-> b, fs |-> fs]
                /\ ret' = [left |-> rb(a, k), right |-> rb(k, b), whole |-> rb(a, b)]

(***************************************************************************)
(* Inputs: metadata lines.                                                 *)
(***************************************************************************)
Line(tilde, name, value) == [eq |-> TRUE, tilde |-> tilde, name |-> name, value |-> value]
\* a line without '=' (text is what it holds; "" is a blank line)
BareLine(text) == [eq |-> FALSE, tilde |-> FALSE, name |-> text,
                   value |-> [lex |-> "text", v |-> <<>>]]
LexInt(n) == [lex |-> "int", v |-> n]
LexFloat(num, den) == [lex |-> "float", v |-> <<num, den>>]
LexText(s) == [lex |-> "text", v |-> s]
LexCsv(s) == [lex |-> "csv", v |-> s]
LexGroups(g) == [lex |-> "groups", v |-> g]
\* a group of fields separated by ',' or by ' '
Comma(f) == [sep |-> ",", f |-> f]
Blank(f) == [sep |-> " ", f |-> f]

\* the lines read_meta is called on
MetaLineSeq ==
    <<Line(FALSE, "typeThis", LexText(<<"imec">>)),
     Line(TRUE, "snsApLfSy", LexCsv(<<1, 0, 1>>)),
     Line(FALSE, "nSavedChans", LexInt(2)),
     Line(FALSE, "nSavedChans", LexInt(3)),
     Line(FALSE, "imSampRate", LexFloat(5, 2)),
     Line(TRUE, "imroTbl", LexGroups(<<Comma(<<0, 1>>), Blank(<<0, 0, 0, 500, 250, 1>>)>>)),
     Line(TRUE, "snsChanMap", [lex |-> "chanmap",
          v |-> [header |-> <<1, 0, 1>>,
                 entries |-> <<[name |-> "AP0", channel |-> 0, order |-> 0]>>]]),
     Line(TRUE, "snsGeomMap", [lex |-> "geommap",
          v |-> [part_number |-> "NP1010", header |-> <<1, 0, 70>>,
                 entries |-> <<<<0, 27, 0, 1>>>>]]),
     Line(FALSE, "snsApLfSy", LexCsv(<<1, 2>>)),
     BareLine("garbage"),
     BareLine("")>>

RECURSIVE SeqsUpTo(_, _)
\* the sequences over S of length at most n
SeqsUpTo(S, n) ==
    IF n = 0 THEN {<<>>}
    ELSE LET shorter == SeqsUpTo(S, n - 1)
         IN  shorter \cup {Append(q, x) : q \in shorter, x \in S}

CallReadMeta ==
    \E choice \in SeqsUpTo(1..Len(MetaLineSeq), MaxLines) :
        LET lines == [i \in 1..Len(choice) |-> MetaLineSeq[choice[i]]]
            fs == (MetaPath :> lines)
        IN  /\ op = "none"
            /\ op' = "read_meta"
            /\ args' = [lines |-> lines, fs |-> fs]
            /\ ret' = read_meta(fs, MetaPath)

(***************************************************************************)
(* Inputs: imroTbl values and the metadata get_gain is called on.          *)
(***************************************************************************)
\* per-channel groups of 6, 4, 5, 3 and 0 whitespace-separated fields, and one
\* whose fields are separated by ','
ImroEntrySeq ==
    <<Blank(<<0, 0, 0, 500, 250, 1>>), Blank(<<0, 1, 0, 0>>), Blank(<<0, 0, 0, 0, 0>>),
      Blank(<<0, 0, 0>>), Blank(<<>>), Comma(<<0, 0, 0, 500, 250, 1>>)>>

\* header probe types: one of each known set and two of none
ImroProbeTypes == {0, 21, 24, 9999, 1}

\* headers (probe_type, channel_count), well-formed and not
ImroHeaderSeq(probe_type) ==
    <<Comma(<<probe_type, 384>>), Comma(<<probe_type>>), Blank(<<probe_type, 384>>),
      Comma(<<probe_type, 0, 384>>)>>

CallParseImrotbl ==
    \/ \E probe_type \in ImroProbeTypes, h \in 1..Len(ImroHeaderSeq(0)) :
         \E choice \in SeqsUpTo(1..Len(ImroEntrySeq), MaxEntries) :
            LET header == ImroHeaderSeq(probe_type)[h]
                entries == [i \in 1..Len(choice) |-> ImroEntrySeq[choice[i]]]
                value == LexGroups(<<header>> \o entries)
            IN  /\ op = "none"
                /\ op' = "parse_imrotbl"
                /\ args' = [value |-> value]
                /\ ret' = parse_imrotbl(value)
    \/ /\ op = "none"
       /\ op' = "parse_imrotbl"
       /\ args' = [value |-> LexGroups(<<>>)]
       /\ ret' = parse_imrotbl(LexGroups(<<>>))

\* the imroTbl entry of a metadata: absent (kind 0), or parsed from n groups
\* of the layout of probe type 0 (kind 1), 21 (kind 2), 24 (kind 3), or of an
\* unknown probe type (kind 4)
ImroMeta(kind, n) ==
    IF kind = 0 THEN EmptyDict
    ELSE LET probe_type == <<0, 21, 24, 9999>>[kind]
             entry == <<ImroEntrySeq[1], ImroEntrySeq[2], ImroEntrySeq[3], ImroEntrySeq[1]>>[kind]
         IN  ("imroTbl" :> parse_imrotbl(
                 LexGroups(<<Comma(<<probe_type, n>>)>> \o [i \in 1..n |-> entry])).val)

\* fileName values: absent (0), an AP-band and an LF-band binary, a nidq
\* binary, an AP-band metadata file
FileNameMeta(f) ==
    IF f = 0 THEN EmptyDict
    ELSE ("fileName" :> PyStr(<< <<"run", ".imec0", ".ap", ".bin">>,
                                 <<"run", ".imec0", ".lf", ".bin">>,
                                 <<"run", ".nidq", ".bin">>,
                                 <<"run", ".imec0", ".ap", ".meta">> >>[f]))

\* niMNGain / niMAGain values: absent (0), an integer, a float
NiGainMeta(key, g) ==
    IF g = 0 THEN EmptyDict
    ELSE (key :> <<PyInt(200), PyFloat(5, 2)>>[g])

\* the metadata of imec recordings get_gain is called on
ImecGainMeta(ap, lf, sy, kind, n, f, lower) ==
    ("typeThis" :> PyStr(<<"imec">>)) @@ ("snsApLfSy" :> ApLfSy(ap, lf, sy))
    @@ ImroMeta(kind, n) @@ FileNameMeta(f)
    @@ (IF lower THEN ("filename" :> PyStr(<<"run">>)) ELSE EmptyDict)

\* the metadata of nidq recordings get_gain is called on
NidqGainMeta(mn, ma, xa, dw, gmn, gma) ==
    ("typeThis" :> PyStr(<<"nidq">>)) @@ ("snsMnMaXaDw" :> MnMaXaDw(mn, ma, xa, dw))
    @@ NiGainMeta("niMNGain", gmn) @@ NiGainMeta("niMAGain", gma)

CallGetGain ==
    \/ \E ap \in Counts, lf \in Counts, sy \in Counts, kind \in 0..4, n \in Counts,
          f \in 0..4, lower \in BOOLEAN :
         LET meta == ImecGainMeta(ap, lf, sy, kind, n, f, lower)
         IN  /\ op = "none"
             /\ op' = "get_gain"
             /\ args' = [meta |-> meta]
             /\ ret' = get_gain(meta)
    \/ \E mn \in Counts, ma \in Counts, xa \in Counts, dw \in Counts,
          gmn \in 0..2, gma \in 0..2 :
         LET meta == NidqGainMeta(mn, ma, xa, dw, gmn, gma)
         IN  /\ op = "none"
             /\ op' = "get_gain"
             /\ args' = [meta |-> meta]
             /\ ret' = get_gain(meta)
    \/ \E i \in 1..3 :
         LET meta == << [typeThis |-> PyStr(<<"obx">>)], [nSavedChans |-> PyInt(1)],
                        [typeThis |-> PyStr(<<"nidq">>), niMNGain |-> PyInt(200),
                         niMAGain |-> PyInt(200)] >>[i]
         IN  /\ op = "none"
             /\ op' = "get_gain"
             /\ args' = [meta |-> meta]
             /\ ret' = get_gain(meta)

(***************************************************************************)
(* Inputs: file pairs for read_analog and read_digital.                    *)
(***************************************************************************)
OptLine(present, line) == IF present THEN <<line>> ELSE <<>>

\* recordings read_analog is called on: imec (AP, LF, SY) and nidq
\* (MN, MA, XA, DW) sub-counts
AnalogConfigs ==
    <<[type |-> "imec", counts |-> <<1, 0, 1>>], [type |-> "imec", counts |-> <<2, 0, 1>>],
      [type |-> "nidq", counts |-> <<1, 1, 0, 1>>], [type |-> "nidq", counts |-> <<1, 0, 1, 0>>]>>

Sum(counts) == IF Len(counts) = 3 THEN counts[1] + counts[2] + counts[3]
               ELSE counts[1] + counts[2] + counts[3] + counts[4]

\* the imroTbl group of channel i of a probe of type 0: AP gain 500 for the
\* first channel and 250 for the others, LF gain 250 and 125
ImroEntry(i) == Blank(<<i - 1, 0, 0, IF i = 1 THEN 500 ELSE 250,
                        IF i = 1 THEN 250 ELSE 125, 1>>)

\* the voltage-range and integer-code lines: absent (0) or one of the values
RangeLines(rim, rni, mim, mni) ==
    OptLine(rim # 0, Line(FALSE, "imAiRangeMax", <<LexFloat(6, 10), LexInt(0)>>[Max(rim, 1)]))
    \o OptLine(rni # 0, Line(FALSE, "niAiRangeMax", LexInt(2)))
    \o OptLine(mim # 0, Line(FALSE, "imMaxInt", <<LexInt(512), LexInt(0)>>[Max(mim, 1)]))
    \o OptLine(mni # 0, Line(FALSE, "niMaxInt", LexInt(32768)))

\* the metadata file of a recording
ConfigLines(cfg) ==
    <<Line(FALSE, "nSavedChans", LexInt(Sum(cfg.counts))),
      Line(FALSE, "typeThis", LexText(<<cfg.type>>))>>
    \o (IF cfg.type = "imec"
        THEN <<Line(FALSE, "fileName", LexText(<<"run", ".imec0", ".ap", ".bin">>)),
               Line(FALSE, "snsApLfSy", LexCsv(cfg.counts)),
               Line(TRUE, "imroTbl", LexGroups(
                   <<Comma(<<0, cfg.counts[1] + cfg.counts[2]>>)>>
                   \o [i \in 1..(cfg.counts[1] + cfg.counts[2]) |-> ImroEntry(i)]))>>
        ELSE <<Line(FALSE, "fileName", LexText(<<"run", ".nidq", ".bin">>)),
               Line(FALSE, "snsMnMaXaDw", LexCsv(cfg.counts)),
               Line(FALSE, "niMNGain", LexInt(200)),
               Line(FALSE, "niMAGain", LexFloat(5, 2))>>)

\* channel selections of read_analog: the default, one channel, two channels
\* reordered, the last saved channel
AnalogSelections(n_channel) ==
    <<PyNone, PyArray(<<0>>), PyArray(<<1, 0>>), PyArray(<<n_channel - 1>>)>>

SampleRanges == <<PyNone, PyArray(<<0, 1>>), PyArray(<<1, 2>>)>>

\* tokens of file names
PathTokens == {"run", "/", ".meta", ".bin", ".txt"}

\* a small valid recording for the calls that vary the file name
SmallLines == ConfigLines(AnalogConfigs[3]) \o RangeLines(0, 1, 0, 1)
               \o <<Line(FALSE, "niSampRate", LexInt(25000))>>
SmallBytes == FileBytes(2 * Sum(AnalogConfigs[3].counts) * 2)

\* the files present when the file name varies: none (0), the pair that
\* shares the stem of filename (1), the pair resolve_pair names (2)
NamedFiles(filename, present) ==
    IF present = 0 \/ Len(filename) = 0 \/ ~IsOk(resolve_pair(filename))
    THEN [q \in {} |-> <<>>]
    ELSE IF present = 1
    THEN LET stem == SubSeq(filename, 1, Len(filename) - 1)
         IN  ((stem \o <<".bin">>) :> SmallBytes) @@ ((stem \o <<".meta">>) :> SmallLines)
    ELSE (resolve_pair(filename).val.bin_fn :> SmallBytes)
         @@ (resolve_pair(filename).val.meta_fn :> SmallLines)

CallReadAnalog ==
    \/ \E c \in 1..Len(AnalogConfigs), rim \in 0..2, rni \in 0..1, mim \in 0..2, mni \in 0..1,
          sel \in 1..Len(AnalogSelections(1)), sr \in 1..Len(SampleRanges) :
         LET cfg == AnalogConfigs[c]
             fs == (BinPath :> FileBytes(2 * Sum(cfg.counts) * 2))
                   @@ (MetaPath :> (ConfigLines(cfg) \o RangeLines(rim, rni, mim, mni)))
             channel_idx == AnalogSelections(Sum(cfg.counts))[sel]
         IN  /\ op = "none"
             /\ op' = "read_analog"
             /\ args' = [filename |-> MetaPath, fs |-> fs, dtype |-> "int16",
                         channel_idx |-> channel_idx, sample_range |-> SampleRanges[sr]]
             /\ ret' = read_analog(fs, MetaPath, "int16", channel_idx, SampleRanges[sr])
    \/ \E filename \in SeqsUpTo(PathTokens, MaxPathLen), present \in 0..2 :
         LET fs == NamedFiles(filename, present)
         IN  /\ op = "none"
             /\ op' = "read_analog"
             /\ args' = [filename |-> filename, fs |-> fs, dtype |-> "int16",
                         channel_idx |-> PyNone, sample_range |-> PyNone]
             /\ ret' = read_analog(fs, filename, "int16", PyNone, PyNone)

\* recordings read_digital is called on: analog channels na, digital words dw
DigitalConfigs ==
    <<[na |-> 0, dw |-> 1], [na |-> 1, dw |-> 1], [na |-> 1, dw |-> 2], [na |-> 1, dw |-> 0]>>

\* values of a digital word of the element type: no line, line 0, lines 0 and
\* 1, the highest line
WordValue(dtype, w) == <<0, 1, 3, Pow2(8 * itemsize(dtype) - 1)>>[w]

\* the bytes of a recording with the digital word words[t] in frame t: na
\* analog elements of value 100, the word, and for a second digital word, the
\* word with its lines inverted
DigitalBytes(cfg, dtype, words) ==
    Flatten([t \in 1..Len(words) |->
        Flatten([j \in 1..(cfg.na + cfg.dw) |->
            ToBytes(IF j <= cfg.na THEN 100
                    ELSE IF j = cfg.na + 1 THEN WordValue(dtype, words[t])
                    ELSE Pow2(8 * itemsize(dtype)) - 1 - WordValue(dtype, words[t]),
                    itemsize(dtype))])])

DigitalLines(type, cfg, rate) ==
    <<Line(FALSE, "nSavedChans", LexInt(cfg.na + cfg.dw)),
      Line(FALSE, "typeThis", LexText(<<type>>))>>
    \o (IF type = "imec"
        THEN <<Line(FALSE, "snsApLfSy", LexCsv(<<cfg.na, 0, cfg.dw>>))>>
             \o OptLine(rate, Line(FALSE, "imSampRate", LexInt(30000)))
        ELSE <<Line(FALSE, "snsMnMaXaDw", LexCsv(<<0, cfg.na, 0, cfg.dw>>))>>
             \o OptLine(rate, Line(FALSE, "niSampRate", LexFloat(5, 2))))

CallReadDigital ==
    \/ \E c \in 1..Len(DigitalConfigs), type \in {"imec", "nidq"}, rate \in BOOLEAN,
          dtype \in {"uint16", "uint8"} :
         \E words \in SeqsUpTo(1..4, MaxFrames) :
            LET cfg == DigitalConfigs[c]
                fs == (BinPath :> DigitalBytes(cfg, dtype, words))
                      @@ (MetaPath :> DigitalLines(type, cfg, rate))
            IN  /\ op = "none"
                /\ op' = "read_digital"
                /\ args' = [filename |-> BinPath, fs |-> fs, dtype |-> dtype,
                            cfg |-> cfg, frames |-> Len(words)]
                /\ ret' = read_digital(fs, BinPath, dtype)
    \/ \E filename \in SeqsUpTo(PathTokens, MaxPathLen), present \in 0..2 :
         LET fs == NamedFiles(filename, present)
         IN  /\ op = "none"
             /\ op' = "read_digital"
             /\ args' = [filename |-> filename, fs |-> fs, dtype |-> "uint16",
                         cfg |-> [na |-> 2, dw |-> 1], frames |-> 2]
             /\ ret' = read_digital(fs, filename, "uint16")

(***************************************************************************)
(* Calls.                                                                  *)
(***************************************************************************)
\* get_channel_idx(meta) and get_channel_idx(meta, analog=False) on one
\* metadata, as read_analog (line 62) and read_digital (line 110) call it
CallGetChannelIdx ==
    \E meta \in IdxMetas :
        /\ op = "none"
        /\ op' = "get_channel_idx"
        /\ args' = [meta |-> meta]
        /\ ret' = [analog |-> get_channel_idx(meta, TRUE),
                   digital |-> get_channel_idx(meta, FALSE)]

\* the call is over: the library keeps nothing of it
Return ==
    /\ op # "none"
    /\ op' = "none"
    /\ args' = <<>>
    /\ ret' = Ok(PyNone)

Init ==
    /\ op = "none"
    /\ args = <<>>
    /\ ret = Ok(PyNone)

Next ==
    \/ CallGetChannelIdx
    \/ CallReadBin
    \/ CallReadMeta
    \/ CallParseImrotbl
    \/ CallGetGain
    \/ CallReadAnalog
    \/ CallReadDigital
    \/ Return

Spec == Init /\ [][Next]_vars

(***************************************************************************)
(* C1                                                                      *)
(***************************************************************************)
\* total channel count of a recording: AP+LF+SY for imec, MN+MA+XA+DW for nidq
TotalChannels(meta) ==
    IF PyEqStr(meta["typeThis"], "imec")
    THEN LET c == meta["snsApLfSy"].v IN c.AP + c.LF + c.SY
    ELSE LET c == meta["snsMnMaXaDw"].v IN c.MN + c.MA + c.XA + c.DW

\* the indices a slice value stands for: [start, stop)
SliceSet(s) == {i \in s.v[1]..(s.v[2] - 1) : TRUE}

\* the metadata of the call has a supported recording type and its sub-counts
SupportedTopology(meta) ==
    /\ Has(meta, "typeThis")
    /\ \/ PyEqStr(meta["typeThis"], "imec") /\ Has(meta, "snsApLfSy")
       \/ PyEqStr(meta["typeThis"], "nidq") /\ Has(meta, "snsMnMaXaDw")

\* C1: for imec and nidq metadata with non-negative sub-counts the analog and
\* the digital result of get_channel_idx are two ranges [start, stop) that are
\* disjoint, whose union is [0, total), the analog one starting at 0 and the
\* digital one starting where the analog one stops.
C1_Partition ==
    (op = "get_channel_idx" /\ SupportedTopology(args.meta)) =>
        /\ IsOk(ret.analog) /\ IsOk(ret.digital)
        /\ ret.analog.val.t = "slice" /\ ret.digital.val.t = "slice"
        /\ ret.analog.val.v[1] = 0
        /\ ret.analog.val.v[1] <= ret.analog.val.v[2]
        /\ ret.digital.val.v[1] = ret.analog.val.v[2]
        /\ ret.digital.val.v[1] <= ret.digital.val.v[2]
        /\ SliceSet(ret.analog.val) \cap SliceSet(ret.digital.val) = {}
        /\ SliceSet(ret.analog.val) \cup SliceSet(ret.digital.val)
               = 0..(TotalChannels(args.meta) - 1)

\* C1 witness: an imec call with analog, LF and digital channels all present
C1_Witness ==
    /\ op = "get_channel_idx"
    /\ SupportedTopology(args.meta)
    /\ PyEqStr(args.meta["typeThis"], "imec")
    /\ args.meta["snsApLfSy"].v.LF > 0
    /\ IsOk(ret.analog) /\ IsOk(ret.digital)
    /\ SliceSet(ret.analog.val) # {}
    /\ SliceSet(ret.digital.val) # {}

(***************************************************************************)
(* C2                                                                      *)
(***************************************************************************)
\* the read_bin call is on a file of whole frames with 0 <= a <= k <= b <= n
\* and a selection of channels the file has
C2_Case ==
    /\ op = "read_bin"
    /\ args.extra = 0
    /\ args.b <= args.frames
    /\ ValidSelection(args.channel_idx, args.n_channel)

\* the three reads succeeded, the read over (a, b) has b-a rows and equals
\* the read over (a, k) followed by the read over (k, b)
C2_Concat ==
    /\ IsOk(ret.whole) /\ IsOk(ret.left) /\ IsOk(ret.right)
    /\ Len(ret.whole.val.rows) = args.b - args.a
    /\ Len(ret.left.val.rows) = args.k - args.a
    /\ Len(ret.right.val.rows) = args.b - args.k
    /\ ret.left.val.rows \o ret.right.val.rows = ret.whole.val.rows

\* C2 as claimed: for a file of n whole frames and any 0 <= a <= k <= b <= n,
\* read_bin over (a, b) returns b-a rows and equals the reads over (a, k) and
\* (k, b) concatenated.
C2_Original == C2_Case => C2_Concat

\* C2 amended: the same for a file of n >= 1 whole frames (an empty file
\* cannot be memory-mapped: read_bin raises ValueError on it).
C2_SplitReads == (C2_Case /\ args.frames >= 1) => C2_Concat

\* C2 witness: a read split strictly inside a file, both halves non-empty,
\* starting after the first frame, on 2-byte elements of two channels
C2_Witness ==
    /\ C2_Case
    /\ args.frames >= 1
    /\ 0 < args.a /\ args.a < args.k /\ args.k < args.b
    /\ args.n_channel = 2 /\ args.dtype = "int16"
    /\ C2_Concat

(***************************************************************************)
(* C5                                                                      *)
(***************************************************************************)
\* line i of the call has a '=' and read_meta stores a value for it
WellFormedLine(line) == line.eq /\ IsOk(meta_value(line.name, line.value))

\* some line has no '=', and every other line is well-formed
C5_Case ==
    /\ op = "read_meta"
    /\ \E i \in 1..Len(args.lines) : ~args.lines[i].eq
    /\ \A i \in 1..Len(args.lines) : args.lines[i].eq => WellFormedLine(args.lines[i])

\* C5: when a line of the metadata file has no '=', read_meta raises the
\* ValueError of the failed `key, value = ...` unpacking (MalformedLine) and
\* returns no mapping, however many well-formed lines precede or follow.
C5_MalformedLine ==
    C5_Case =>
        /\ ret.exc = "ValueError"
        /\ ret.val = "not enough values to unpack (expected 2, got 1)"

\* C5 witness: a line without '=' between two well-formed lines
C5_Witness ==
    /\ C5_Case
    /\ Len(args.lines) = 3
    /\ args.lines[1].eq /\ ~args.lines[2].eq /\ args.lines[3].eq
    /\ ret.exc = "ValueError"

(***************************************************************************)
(* C6                                                                      *)
(***************************************************************************)
KnownProbeTypes == NP1Types \cup NP2SingleShankTypes \cup NP2FourShankTypes

\* the imroTbl value has a header (probe_type,channel_count) with a probe type
\* of none of the three sets, followed by groups of whitespace-separated
\* integers
C6_Case ==
    /\ op = "parse_imrotbl"
    /\ Len(args.value.v) >= 1
    /\ Len(args.value.v[1].f) = 2 /\ args.value.v[1].sep = ","
    /\ args.value.v[1].f[1] \notin KnownProbeTypes
    /\ \A i \in 2..Len(args.value.v) : IsOk(IntFields(args.value.v[i], " "))

\* C6: for a header probe type in none of the three known sets parse_imrotbl
\* returns, without error, the header's probe_type and channel_count and an
\* empty channel list, whatever the number of groups and their field counts.
C6_UnknownProbeType ==
    C6_Case =>
        /\ IsOk(ret)
        /\ ret.val.v.probe_type = args.value.v[1].f[1]
        /\ ret.val.v.num_channels = args.value.v[1].f[2]
        /\ ret.val.v.channels = <<>>

\* C6 witness: an unknown probe type followed by three groups, two of them
\* with the field counts of known layouts
C6_Witness ==
    /\ C6_Case
    /\ Len(args.value.v) = 4
    /\ \E i \in 2..4 : Len(args.value.v[i].f) = 6
    /\ \E i \in 2..4 : Len(args.value.v[i].f) = 4
    /\ IsOk(ret)

(***************************************************************************)
(* C7, C8, C9                                                              *)
(***************************************************************************)
IsImec(meta) == Has(meta, "typeThis") /\ PyEqStr(meta["typeThis"], "imec")
IsNidq(meta) == Has(meta, "typeThis") /\ PyEqStr(meta["typeThis"], "nidq")

\* the values of a gain field of the channel records, as get_gain returns them
GainValues(channels, field) == [i \in 1..Len(channels) |-> <<channels[i][field], 1>>]

AllHave(channels, field) == \A i \in 1..Len(channels) : field \in DOMAIN channels[i]

\* C7 as claimed: for imec metadata with a GainTable, get_gain returns the
\* apgain values for a fileName ending in '.ap.bin', the lfgain values for one
\* ending in '.lf.bin' (of channel records that carry lfgain), and raises the
\* ValueError "Unrecognized file type" for every other fileName.
C7_Original ==
    (/\ op = "get_gain"
     /\ IsImec(args.meta)
     /\ Has(args.meta, "imroTbl")
     /\ Has(args.meta, "fileName")) =>
        LET channels == args.meta["imroTbl"].v.channels
            fileName == args.meta["fileName"].v
        IN  IF EndsWith(fileName, <<".ap", ".bin">>)
            THEN IsOk(ret) /\ ret.val.v = GainValues(channels, "apgain")
            ELSE IF EndsWith(fileName, <<".lf", ".bin">>)
            THEN AllHave(channels, "lfgain") =>
                    (IsOk(ret) /\ ret.val.v = GainValues(channels, "lfgain"))
            ELSE /\ ret.exc = "ValueError"
                 /\ ret.val = "Unrecognized file type for imec recording"

\* a key get_gain needs for the computation asked of it is absent
RequiredKeyAbsent(meta) ==
    \/ /\ IsImec(meta)
       /\ \/ ~Has(meta, "imroTbl")
          \/ ~Has(meta, "fileName")
          \/ /\ Has(meta, "imroTbl") /\ Has(meta, "fileName")
             /\ \/ /\ EndsWith(meta["fileName"].v, <<".ap", ".bin">>)
                   /\ ~AllHave(meta["imroTbl"].v.channels, "apgain")
                \/ /\ EndsWith(meta["fileName"].v, <<".lf", ".bin">>)
                   /\ ~AllHave(meta["imroTbl"].v.channels, "lfgain")
    \/ /\ IsNidq(meta)
       /\ (~Has(meta, "snsMnMaXaDw") \/ ~Has(meta, "niMNGain") \/ ~Has(meta, "niMAGain"))

\* C8 as claimed: whenever a key get_gain needs is absent, get_gain raises the
\* ValueError that reports missing metadata (MissingField) and no other error.
C8_Original ==
    (op = "get_gain" /\ RequiredKeyAbsent(args.meta)) =>
        /\ ret.exc = "ValueError"
        /\ ret.val \in {"Missing 'imroTbl' or 'channels' in metadata for imec recording",
                        "Missing required metadata for nidq recording"}

\* the GainTable of an imec metadata has one channel record per analog channel
ConsistentImro(meta) ==
    IsImec(meta) =>
        /\ Has(meta, "imroTbl")
        /\ Len(meta["imroTbl"].v.channels)
               = meta["snsApLfSy"].v.AP + meta["snsApLfSy"].v.LF

\* C9 as claimed: when get_gain succeeds the gain vector has one entry per
\* channel of the recording (AP+LF+SY for imec, MN+MA+XA+DW for nidq); for
\* nidq the first MN entries are niMNGain, the next MA are niMAGain, the rest 1.
C9_Original ==
    (op = "get_gain" /\ IsOk(ret) /\ ConsistentImro(args.meta)) =>
        /\ Len(ret.val.v) = TotalChannels(args.meta)
        /\ IsNidq(args.meta) =>
             LET c == args.meta["snsMnMaXaDw"].v
             IN  \A i \in 1..Len(ret.val.v) :
                    ret.val.v[i] = IF i <= c.MN THEN NumOf(args.meta["niMNGain"])
                                   ELSE IF i <= c.MN + c.MA
                                   THEN NumOf(args.meta["niMAGain"])
                                   ELSE <<1, 1>>

(***************************************************************************)
(* C3                                                                      *)
(***************************************************************************)
\* the binary file of the call
BinOf(fs) == CHOOSE path \in DOMAIN fs : EndsWith(path, <<".bin">>)

\* the value of bit line c at sample t of the recording of a read_digital
\* call, taken from the bytes of the binary file: bit c % w of the digital
\* word c \div w of frame t, w the bits of an element
BitLine(t, c) ==
    LET size == itemsize(args.dtype)
        word == args.cfg.na + (c \div (8 * size))
        off == (t * (args.cfg.na + args.cfg.dw) + word) * size
        bytes == args.fs[BinOf(args.fs)]
        u == IF size = 1 THEN bytes[off + 1] ELSE bytes[off + 1] + 256 * bytes[off + 2]
    IN  (u \div Pow2(c % (8 * size))) % 2

\* the number of bit lines of the recording of a read_digital call
BitLines == args.cfg.dw * 8 * itemsize(args.dtype)

\* C3: read_digital emits an event with sample index t and channel c exactly
\* when t >= 1 and bit line c differs between samples t-1 and t; the event's
\* type is the bit value at sample t; so no event has sample index 0.
C3_Transitions ==
    (op = "read_digital" /\ IsOk(ret)) =>
        /\ \A t \in 0..(args.frames - 1), c \in 0..(BitLines - 1) :
              (\E e \in 1..Len(ret.val) : ret.val[e].sample = t /\ ret.val[e].chan = c)
              <=> (t >= 1 /\ BitLine(t, c) # BitLine(t - 1, c))
        /\ \A e \in 1..Len(ret.val) :
              /\ ret.val[e].sample \in 1..(args.frames - 1)
              /\ ret.val[e].chan \in 0..(BitLines - 1)
              /\ ret.val[e].type = BitLine(ret.val[e].sample, ret.val[e].chan)

\* C3 witness: a 2-sample recording of one digital word whose line 0 goes
\* from 0 to 1 and whose other lines stay 0: exactly one event, at sample 1,
\* of type 1
C3_Witness ==
    /\ op = "read_digital" /\ IsOk(ret)
    /\ args.frames = 2 /\ args.cfg.dw = 1
    /\ BitLine(0, 0) = 0 /\ BitLine(1, 0) = 1
    /\ \A c \in 1..(BitLines - 1) : BitLine(0, c) = 0 /\ BitLine(1, c) = 0
    /\ Len(ret.val) = 1
    /\ ret.val[1].sample = 1 /\ ret.val[1].chan = 0 /\ ret.val[1].type = 1

(***************************************************************************)
(* C4                                                                      *)
(***************************************************************************)
\* what a successful read_analog call read: its metadata, its selection, the
\* raw matrix of read_bin and the gain vector of get_gain
AnalogPair == resolve_pair(args.filename).val
AnalogMeta == read_meta(args.fs, AnalogPair.meta_fn).val
AnalogSelection ==
    IF args.channel_idx.t = "None" THEN get_channel_idx(AnalogMeta, TRUE).val
    ELSE args.channel_idx
AnalogRaw ==
    read_bin(args.fs, AnalogPair.bin_fn, AnalogMeta["nSavedChans"].v, args.dtype,
             AnalogSelection, args.sample_range).val
AnalogGain == get_gain(AnalogMeta).val.v

\* the channel of column j of the selection
SelectedChannel(j) ==
    IF AnalogSelection.t = "slice"
    THEN SliceIndices(AnalogSelection, AnalogMeta["nSavedChans"].v)[j]
    ELSE WrapIndex(AnalogSelection.v[j], AnalogMeta["nSavedChans"].v)

\* every element of the result is the raw integer times
\* 1,000,000 * range_max / max_int / gain[c]
ScaledBy(range_max, max_int) ==
    /\ IsNumber(range_max) /\ IsNumber(max_int)
    /\ NumOf(max_int)[1] # 0
    /\ Len(ret.val.rows) = Len(AnalogRaw.rows)
    /\ \A s \in 1..Len(AnalogRaw.rows), j \in 1..AnalogRaw.ncols :
          SelectedChannel(j) < Len(AnalogGain) =>
              LET g == AnalogGain[SelectedChannel(j) + 1]
                  r == NumOf(range_max)
                  m == NumOf(max_int)
                  scale == Rat(1000000 * r[1] * m[2] * g[2], r[2] * m[1] * g[1])
              IN  ret.val.rows[s][j] = Rat(AnalogRaw.rows[s][j] * scale[1], scale[2])

\* the value of the imec-prefixed key when the key is present, else of the
\* nidq-prefixed key
WhenPresent(meta, im, ni) == IF Has(meta, im) THEN meta[im] ELSE Get(meta, ni)

\* the value of the imec-prefixed key when the key is present with a nonzero
\* value, else of the nidq-prefixed key
WhenNonzero(meta, im, ni) ==
    IF Has(meta, im) /\ Truthy(meta[im]) THEN meta[im] ELSE Get(meta, ni)

\* C4 as claimed: range_max and max_int come from the imec-prefixed key when
\* it is present and otherwise from the nidq-prefixed key, max_int is 512 when
\* neither key is present.
C4_Original ==
    (op = "read_analog" /\ IsOk(ret)) =>
        LET max_int == WhenPresent(AnalogMeta, "imMaxInt", "niMaxInt")
        IN  ScaledBy(WhenPresent(AnalogMeta, "imAiRangeMax", "niAiRangeMax"),
                     IF max_int.t = "None" THEN PyInt(512) ELSE max_int)

\* C4 amended: each element of read_analog's result is the raw integer of
\* read_bin times 1,000,000 * range_max / max_int / gain[c], range_max and
\* max_int taken from the imec-prefixed key when it is present with a nonzero
\* value and otherwise from the nidq-prefixed key, max_int being 512 when
\* neither key holds a nonzero value.
C4_Scale ==
    (op = "read_analog" /\ IsOk(ret)) =>
        LET max_int == WhenNonzero(AnalogMeta, "imMaxInt", "niMaxInt")
        IN  ScaledBy(WhenNonzero(AnalogMeta, "imAiRangeMax", "niAiRangeMax"),
                     IF Truthy(max_int) THEN max_int ELSE PyInt(512))

\* C4 witness: range_max 0.6, max_int 512, gain 500 and the raw value 100
\* give 234.375 = 1875/8
C4_Witness ==
    /\ op = "read_analog" /\ IsOk(ret)
    /\ Has(AnalogMeta, "imAiRangeMax") /\ NumOf(AnalogMeta["imAiRangeMax"]) = <<3, 5>>
    /\ Has(AnalogMeta, "imMaxInt") /\ AnalogMeta["imMaxInt"].v = 512
    /\ Len(AnalogRaw.rows) >= 1 /\ AnalogRaw.ncols >= 1
    /\ AnalogRaw.rows[1][1] = 100
    /\ AnalogGain[SelectedChannel(1) + 1] = <<500, 1>>
    /\ ret.val.rows[1][1] = <<1875, 8>>

(***************************************************************************)
(* C10                                                                     *)
(***************************************************************************)
\* the file name without its last token
Stem(filename) == SubSeq(filename, 1, Len(filename) - 1)

\* C10 as claimed: for a file name ending in '.meta' (in '.bin') the binary
\* (the metadata) path that read_analog and read_digital look up is the stem
\* of the file name with the suffix '.bin' ('.meta'), whatever the stem
\* holds; any other name fails with ValueError before any file is looked up.
C10_Original ==
    (op \in {"read_analog", "read_digital"}) =>
        IF EndsWith(args.filename, <<".meta">>)
        THEN /\ Len(ret.looked) >= 1
             /\ ret.looked[1] = Stem(args.filename) \o <<".bin">>
             /\ Len(ret.looked) >= 2 => ret.looked[2] = args.filename
        ELSE IF EndsWith(args.filename, <<".bin">>)
        THEN /\ Len(ret.looked) >= 1
             /\ ret.looked[1] = args.filename
             /\ Len(ret.looked) >= 2 =>
                    ret.looked[2] = Stem(args.filename) \o <<".meta">>
        ELSE /\ ret.exc = "ValueError"
             /\ ret.val = "Filename must end with either '.meta' or '.bin'"
             /\ ret.looked = <<>>
(***************************************************************************)
(* C11                                                                     *)
(***************************************************************************)
\* event e comes before event f in the detection scan: a smaller sample
\* index, or the same sample index and a strictly smaller channel
ScanBefore(e, f) ==
    \/ e.sample < f.sample
    \/ e.sample = f.sample /\ e.chan < f.chan

\* C11: the events returned by read_digital are in the order of the detection
\* scan: of two consecutive events the earlier has the smaller or equal sample
\* index and, when the sample indices are equal, the strictly smaller channel;
\* no (sample index, channel) pair appears twice.
C11_ScanOrder ==
    (op = "read_digital" /\ IsOk(ret)) =>
        /\ \A e \in 1..(Len(ret.val) - 1) : ScanBefore(ret.val[e], ret.val[e + 1])
        /\ \A e, f \in 1..Len(ret.val) :
              (ret.val[e].sample = ret.val[f].sample /\ ret.val[e].chan = ret.val[f].chan)
                  => e = f

\* C11 witness: a recording whose events hold a later line at an earlier
\* sample than an earlier line (line 1 at sample 1, then lines 0 and 1 at
\* sample 2), so the scan order is neither the line order nor a single sample
C11_Witness ==
    /\ op = "read_digital" /\ IsOk(ret)
    /\ Len(ret.val) = 3
    /\ ret.val[1].sample = 1 /\ ret.val[1].chan = 1
    /\ ret.val[2].sample = 2 /\ ret.val[2].chan = 0
    /\ ret.val[3].sample = 2 /\ ret.val[3].chan = 1
====
